---- MODULE Spec2Model ----
(***************************************************************************)
(* Model of calc/__init__.py: amortization_schedule and                    *)
(* adjusted_amortization_schedule.                                         *)
(*                                                                         *)
(* Numbers.  The program computes in IEEE doubles.  A real value x is      *)
(* modelled by the integer nearest to x * Scale (decimal fixed point).     *)
(* + and - are exact; every * and / rounds its result to the nearest       *)
(* 1/Scale, as a double operation rounds to the nearest double.  round(x,2)*)
(* yields an integer number of cents.  Loan sizes are kept small so that   *)
(* the accumulated arithmetic error stays far below half a cent, as it     *)
(* does for doubles on loans of ordinary size.                             *)
(***************************************************************************)
EXTENDS Integers, Sequences, FiniteSets

\* 1/Scale is the resolution of the modelled arithmetic; a cent is CentUnits.
Scale == 100 * 100000
CentUnits == Scale \div 100
MilliUnits == Scale \div 1000

\* Longest loan term (years) the inputs range over.
MaxTerm == 1

----------------------------------------------------------------------------
(* Arithmetic *)

Abs(x) == IF x < 0 THEN -x ELSE x

\* a \div b rounded to the nearest integer, ties to the even one (b > 0).
RoundDiv(a, b) ==
    LET q == a \div b
        r == a % b
    IN  IF 2 * r > b \/ (2 * r = b /\ q % 2 = 1) THEN q + 1 ELSE q

\* <<q, r>> with a * b = q * c + r and 0 <= r < c, for 0 <= a < c, 0 <= b,
\* by binary long multiplication: no intermediate value exceeds 3 * c.
RECURSIVE MulDivQR(_, _, _)
MulDivQR(a, b, c) ==
    IF b = 0 THEN <<0, 0>>
    ELSE LET h  == MulDivQR(a, b \div 2, c)
             r2 == 2 * h[2] + (IF b % 2 = 1 THEN a ELSE 0)
         IN  <<2 * h[1] + r2 \div c, r2 % c>>

\* a * b / c rounded to the nearest integer, ties to even (c > 0).
MulDivRound(a, b, c) ==
    LET A  == Abs(a)
        B  == Abs(b)
        h  == MulDivQR(A % c, B, c)
        q  == (A \div c) * B + h[1]
        m  == IF 2 * h[2] > c \/ (2 * h[2] = c /\ q % 2 = 1) THEN q + 1 ELSE q
    IN  IF (a < 0) = (b < 0) THEN m ELSE -m

\* x * y of two modelled reals.
Mul(x, y) == MulDivRound(x, y, Scale)

\* x / y of two modelled reals, y # 0 (the caller raises ZeroDivisionError).
Div(x, y) == IF y > 0 THEN MulDivRound(x, Scale, y) ELSE MulDivRound(-x, Scale, -y)

\* x / k for an integer literal k > 0.
DivInt(x, k) == RoundDiv(x, k)

\* b ** n for an integer n >= 0.
RECURSIVE Pow(_, _)
Pow(b, n) == IF n = 0 THEN Scale ELSE Mul(Pow(b, n - 1), b)

\* round(x, 2): the nearest whole number of cents.
Round2(x) == RoundDiv(x, CentUnits)

\* A float holding a whole number of cents / thousandths, as a modelled real.
Cents(c) == c * CentUnits
Mills(m) == m * MilliUnits

----------------------------------------------------------------------------
(* Inputs of one call adjusted_amortization_schedule(...) *)

\* An optional float: << >> is None, <<v>> is the value v.
None == << >>
Some(v) == <<v>>

LoanValues == {Cents(1000), Cents(1500)}
Interests == {0, 6 * Scale, 12 * Scale}
Terms == 1..MaxTerm
DownPayments == {0, Cents(990)}
PropertyTaxes == {0, Cents(120)}
HomeInsurances == {0, Cents(60)}
HoaFees == {0, Cents(12)}
Pmis == {0, Cents(5)}
MaxMonthlyPayments ==
    {None, Some(Cents(50)), Some(Cents(133)), Some(Mills(1331)), Some(Cents(400))}
\* start_date; when the caller passes None it is today's date, one of these.
StartDates == {[year |-> 2023, month |-> 12], [year |-> 2024, month |-> 11]}

----------------------------------------------------------------------------
(* Dates *)

\* start_date + relativedelta(months=k): only year and month are read.
AddMonths(d, k) ==
    LET t == d.month - 1 + k
    IN  [year |-> d.year + (t \div 12), month |-> (t % 12) + 1]

\* payment_date.strftime('%Y-%m'), the digits of "YYYY-MM" read as a number.
Strftime(d) == d.year * 100 + d.month

----------------------------------------------------------------------------
(* The record appended for one month (lines 79-97, 162-181, 195-213) *)

\* f holds the monthly costs and the cumulative sums at the time of the append.
PaymentRecord(payment_date, payment, principal, interest, balance, total, f) ==
    [Month                 |-> Strftime(payment_date),
     Monthly_Payment       |-> Round2(payment),
     Principal             |-> Round2(principal),
     Interest              |-> Round2(interest),
     Remaining_Balance     |-> Round2(balance),
     Total_Monthly_Payment |-> Round2(total),
     Property_Taxes        |-> Round2(f.monthly_property_taxes),
     Home_Insurance        |-> Round2(f.monthly_home_insurance),
     HOA_Fees              |-> Round2(f.monthly_hoa_fees),
     PMI                   |-> Round2(f.monthly_pmi),
     Total_Payments_Sum    |-> Round2(f.total_payments_sum),
     Interest_Sum          |-> Round2(f.interest_sum),
     Principal_Sum         |-> Round2(f.principal_sum),
     Property_Taxes_Sum    |-> Round2(f.property_taxes_sum),
     Home_Insurance_Sum    |-> Round2(f.home_insurance_sum),
     HOA_Fees_Sum          |-> Round2(f.hoa_fees_sum),
     PMI_Sum               |-> Round2(f.pmi_sum)]

----------------------------------------------------------------------------
(* State *)

VARIABLES
    args,          \* the arguments of the call
    pc,            \* where the call is
    std,           \* locals of amortization_schedule
    adj,           \* locals of adjusted_amortization_schedule
    schedule,      \* the list amortization_schedule builds and returns
    new_schedule,  \* the list the capped loop builds
    outcome,       \* "running", "returned" or the name of the exception raised
    retval         \* the list returned (<< >> until the call returns)

vars == <<args, pc, std, adj, schedule, new_schedule, outcome, retval>>

\* A frame before its function is entered.
NoFrame ==
    [monthly_interest_rate |-> 0, n_payments |-> 0, loan_amount |-> 0,
     monthly_payment |-> 0, total_monthly_payment |-> 0, additional_costs |-> 0,
     interest_payment |-> 0, principal_payment |-> 0, month |-> 0,
     monthly_property_taxes |-> 0, monthly_home_insurance |-> 0,
     monthly_hoa_fees |-> 0, monthly_pmi |-> 0,
     total_payments_sum |-> 0, interest_sum |-> 0, principal_sum |-> 0,
     property_taxes_sum |-> 0, home_insurance_sum |-> 0, hoa_fees_sum |-> 0,
     pmi_sum |-> 0]

Init ==
    /\ args \in [loan_value : LoanValues, interest : Interests, term : Terms,
                 max_monthly_payment : MaxMonthlyPayments,
                 down_payment : DownPayments, start_date : StartDates,
                 property_taxes : PropertyTaxes, home_insurance : HomeInsurances,
                 hoa_fees : HoaFees, pmi : Pmis]
    /\ pc = "adj_entry"
    /\ std = NoFrame
    /\ adj = NoFrame
    /\ schedule = << >>
    /\ new_schedule = << >>
    /\ outcome = "running"
    /\ retval = << >>

----------------------------------------------------------------------------
(* amortization_schedule *)

\* interest / 12 / 100  (lines 41, 154)
MonthlyInterestRate(interest) == DivInt(DivInt(interest, 12), 100)

\* (1 + monthly_interest_rate)**n_payments - 1: the divisor of line 50
AnnuityDivisor(rate, n) == Pow(Scale + rate, n) - Scale

\* line 50
MonthlyPayment(loan_amount, rate, n) ==
    Div(Mul(Mul(loan_amount, rate), Pow(Scale + rate, n)), AnnuityDivisor(rate, n))

\* line 59
TotalMonthlyPayment(monthly_payment, pt, hi, hoa, pmi) ==
    monthly_payment + pt + hi + hoa + pmi

\* Mutant of StdPrincipalPayment: the interest added instead of subtracted.
StdPrincipalPaymentAdded(monthly_payment, interest_payment) ==
    monthly_payment + interest_payment

\* line 65
StdPrincipalPayment(monthly_payment, interest_payment) ==
    monthly_payment - interest_payment

\* Mutant of StdLoopContinues: range(1, n_payments), one month short.
StdLoopStopsEarly(month, n_payments) == month < n_payments

\* line 63: range(1, n_payments + 1) still yields month
StdLoopContinues(month, n_payments) == month <= n_payments

\* lines 124-142: the caller's own monthly costs and sums, then the call.
AdjEntry ==
    /\ pc = "adj_entry"
    /\ adj' = [NoFrame EXCEPT
                 !.monthly_property_taxes = DivInt(args.property_taxes, 12),
                 !.monthly_home_insurance = DivInt(args.home_insurance, 12),
                 !.monthly_hoa_fees = args.hoa_fees,
                 !.monthly_pmi = args.pmi]
    /\ pc' = "std_entry"
    /\ UNCHANGED <<args, std, schedule, new_schedule, outcome, retval>>

\* lines 28-61, when line 50 divides by zero: ZeroDivisionError propagates
\* out of both functions.
StdDivisionByZero ==
    /\ pc = "std_entry"
    /\ AnnuityDivisor(MonthlyInterestRate(args.interest), args.term * 12) = 0
    /\ outcome' = "ZeroDivisionError"
    /\ pc' = "done"
    /\ UNCHANGED <<args, std, adj, schedule, new_schedule, retval>>

\* lines 28-61
StdEntry ==
    /\ pc = "std_entry"
    /\ LET rate == MonthlyInterestRate(args.interest)
           n    == args.term * 12
           la   == args.loan_value - args.down_payment
           pt   == DivInt(args.property_taxes, 12)
           hi   == DivInt(args.home_insurance, 12)
       IN  /\ AnnuityDivisor(rate, n) # 0
           /\ LET mp == MonthlyPayment(la, rate, n)
              IN  std' = [NoFrame EXCEPT
                            !.monthly_interest_rate = rate,
                            !.n_payments = n,
                            !.loan_amount = la,
                            !.monthly_payment = mp,
                            !.monthly_property_taxes = pt,
                            !.monthly_home_insurance = hi,
                            !.monthly_hoa_fees = args.hoa_fees,
                            !.monthly_pmi = args.pmi,
                            !.total_monthly_payment =
                                TotalMonthlyPayment(mp, pt, hi, args.hoa_fees, args.pmi),
                            !.month = 1]
    /\ schedule' = << >>
    /\ pc' = "std_loop"
    /\ UNCHANGED <<args, adj, new_schedule, outcome, retval>>

\* lines 63-97: one iteration of the loop
StdIter ==
    /\ pc = "std_loop"
    /\ StdLoopContinues(std.month, std.n_payments)
    /\ LET interest_payment  == Mul(std.loan_amount, std.monthly_interest_rate)
           principal_payment == StdPrincipalPayment(std.monthly_payment, interest_payment)
           loan_amount       == std.loan_amount - principal_payment
           payment_date      == AddMonths(args.start_date, std.month - 1)
           f == [std EXCEPT
                   !.interest_payment = interest_payment,
                   !.principal_payment = principal_payment,
                   !.loan_amount = loan_amount,
                   !.total_payments_sum = @ + std.total_monthly_payment,
                   !.interest_sum = @ + interest_payment,
                   !.principal_sum = @ + principal_payment,
                   !.property_taxes_sum = @ + std.monthly_property_taxes,
                   !.home_insurance_sum = @ + std.monthly_home_insurance,
                   !.hoa_fees_sum = @ + std.monthly_hoa_fees,
                   !.pmi_sum = @ + std.monthly_pmi]
       IN  /\ schedule' = Append(schedule,
                  PaymentRecord(payment_date, std.monthly_payment, principal_payment,
                                interest_payment, loan_amount,
                                std.total_monthly_payment, f))
           /\ std' = [f EXCEPT !.month = @ + 1]
    /\ UNCHANGED <<args, pc, adj, new_schedule, outcome, retval>>

\* line 99, and the assignment of line 142
StdReturn ==
    /\ pc = "std_loop"
    /\ ~StdLoopContinues(std.month, std.n_payments)
    /\ pc' = "adj_check"
    /\ UNCHANGED <<args, std, adj, schedule, new_schedule, outcome, retval>>

----------------------------------------------------------------------------
(* adjusted_amortization_schedule, after the standard schedule is built *)

\* Mutant of CapRejected: a cap equal to the total is let through.
CapRejectedStrict(max_monthly_payment, total_monthly_payment) ==
    max_monthly_payment < Cents(total_monthly_payment)

\* line 146: the cap against schedule[0]['Total Monthly Payment'], which is
\* the rounded figure the record holds (a whole number of cents).
CapRejected(max_monthly_payment, total_monthly_payment) ==
    max_monthly_payment <= Cents(total_monthly_payment)

\* line 151
AdditionalCosts(property_taxes, home_insurance, hoa_fees, pmi) ==
    DivInt(property_taxes, 12) + DivInt(home_insurance, 12)
        + DivInt(hoa_fees, 12) + DivInt(pmi, 12)

\* line 155
AdjPrincipalPayment(max_monthly_payment, interest_payment, additional_costs) ==
    max_monthly_payment - interest_payment - additional_costs

\* Mutant of AdjMonthlyPayment: the additional costs counted in.
AdjMonthlyPaymentWithCosts(principal_payment, interest_payment, additional_costs) ==
    principal_payment + interest_payment + additional_costs

\* lines 164, 197: 'Monthly Payment' before rounding
AdjMonthlyPayment(principal_payment, interest_payment, additional_costs) ==
    principal_payment + interest_payment

\* Mutant of AdjFinalTotal: the interest left out.
AdjFinalTotalNoInterest(principal_payment, interest_payment, additional_costs) ==
    principal_payment + additional_costs

\* line 168: 'Total Monthly Payment' of the pay-off record before rounding
AdjFinalTotal(principal_payment, interest_payment, additional_costs) ==
    principal_payment + interest_payment + additional_costs

\* line 153: range(1, len(schedule) + 1) still yields month
AdjLoopContinues(month, schedule_len) == month <= schedule_len

\* lines 144, 217: no cap, the standard schedule is returned
AdjReturnSchedule ==
    /\ pc = "adj_check"
    /\ args.max_monthly_payment = None
    /\ retval' = schedule
    /\ outcome' = "returned"
    /\ pc' = "done"
    /\ UNCHANGED <<args, std, adj, schedule, new_schedule>>

\* lines 144-147: the cap is not above the standard first-month total
AdjReject ==
    /\ pc = "adj_check"
    /\ args.max_monthly_payment # None
    /\ CapRejected(args.max_monthly_payment[1], schedule[1].Total_Monthly_Payment)
    /\ outcome' = "MaxPaymentException"
    /\ pc' = "done"
    /\ UNCHANGED <<args, std, adj, schedule, new_schedule, retval>>

\* lines 144-151: the cap is accepted
AdjAccept ==
    /\ pc = "adj_check"
    /\ args.max_monthly_payment # None
    /\ ~CapRejected(args.max_monthly_payment[1], schedule[1].Total_Monthly_Payment)
    /\ new_schedule' = << >>
    /\ adj' = [adj EXCEPT
                 !.total_monthly_payment = Cents(schedule[1].Total_Monthly_Payment),
                 !.loan_amount = args.loan_value - args.down_payment,
                 !.additional_costs =
                     AdditionalCosts(args.property_taxes, args.home_insurance,
                                     args.hoa_fees, args.pmi),
                 !.month = 1]
    /\ pc' = "adj_loop"
    /\ UNCHANGED <<args, std, schedule, outcome, retval>>

\* lines 154-156 of one iteration
AdjInterestPayment == Mul(adj.loan_amount, MonthlyInterestRate(args.interest))
AdjPrincipal ==
    AdjPrincipalPayment(args.max_monthly_payment[1], AdjInterestPayment,
                        adj.additional_costs)
AdjNewLoanAmount == adj.loan_amount - AdjPrincipal

\* lines 154-182 and 215: the iteration that pays the loan off; it appends the
\* last record without updating the sums, breaks, and new_schedule is returned.
AdjPayoff ==
    /\ pc = "adj_loop"
    /\ AdjLoopContinues(adj.month, Len(schedule))
    /\ AdjNewLoanAmount <= 0
    /\ LET interest_payment  == AdjInterestPayment
           loan_amount       == 0
           principal_payment == AdjPrincipal + loan_amount
           payment_date      == AddMonths(args.start_date, adj.month - 1)
           f == [adj EXCEPT
                   !.interest_payment = interest_payment,
                   !.principal_payment = principal_payment,
                   !.loan_amount = loan_amount]
           s == Append(new_schedule,
                  PaymentRecord(payment_date,
                     AdjMonthlyPayment(principal_payment, interest_payment,
                                       adj.additional_costs),
                     principal_payment, interest_payment, loan_amount,
                     AdjFinalTotal(principal_payment, interest_payment,
                                   adj.additional_costs),
                     f))
       IN  /\ new_schedule' = s
           /\ adj' = f
           /\ retval' = s
    /\ outcome' = "returned"
    /\ pc' = "done"
    /\ UNCHANGED <<args, std, schedule>>

\* lines 154-158 and 184-213: an iteration that leaves a balance
AdjIter ==
    /\ pc = "adj_loop"
    /\ AdjLoopContinues(adj.month, Len(schedule))
    /\ AdjNewLoanAmount > 0
    /\ LET interest_payment  == AdjInterestPayment
           principal_payment == AdjPrincipal
           loan_amount       == AdjNewLoanAmount
           payment_date      == AddMonths(args.start_date, adj.month - 1)
           f == [adj EXCEPT
                   !.interest_payment = interest_payment,
                   !.principal_payment = principal_payment,
                   !.loan_amount = loan_amount,
                   !.total_payments_sum = @ + args.max_monthly_payment[1],
                   !.interest_sum = @ + interest_payment,
                   !.principal_sum = @ + principal_payment,
                   !.property_taxes_sum = @ + adj.monthly_property_taxes,
                   !.home_insurance_sum = @ + adj.monthly_home_insurance,
                   !.hoa_fees_sum = @ + adj.monthly_hoa_fees,
                   !.pmi_sum = @ + adj.monthly_pmi]
       IN  /\ new_schedule' = Append(new_schedule,
                  PaymentRecord(payment_date,
                     AdjMonthlyPayment(principal_payment, interest_payment,
                                       adj.additional_costs),
                     principal_payment, interest_payment, loan_amount,
                     args.max_monthly_payment[1], f))
           /\ adj' = [f EXCEPT !.month = @ + 1]
    /\ UNCHANGED <<args, pc, std, schedule, outcome, retval>>

\* lines 153, 215: the loop ran out of months with a balance left
AdjExhausted ==
    /\ pc = "adj_loop"
    /\ ~AdjLoopContinues(adj.month, Len(schedule))
    /\ retval' = new_schedule
    /\ outcome' = "returned"
    /\ pc' = "done"
    /\ UNCHANGED <<args, std, adj, schedule, new_schedule>>

Next ==
    \/ AdjEntry
    \/ StdDivisionByZero
    \/ StdEntry
    \/ StdIter
    \/ StdReturn
    \/ AdjReturnSchedule
    \/ AdjReject
    \/ AdjAccept
    \/ AdjPayoff
    \/ AdjIter
    \/ AdjExhausted

Spec == Init /\ [][Next]_vars

----------------------------------------------------------------------------
(* Properties *)

Last(s) == s[Len(s)]
CapGiven == args.max_monthly_payment # None
Cap == args.max_monthly_payment[1]
InitialLoanAmount == args.loan_value - args.down_payment
NPayments == args.term * 12
ZeroCosts ==
    /\ args.property_taxes = 0
    /\ args.home_insurance = 0
    /\ args.hoa_fees = 0
    /\ args.pmi = 0
\* amortization_schedule has returned its list
StdReturned == pc \in {"adj_check", "adj_loop"} \/ (pc = "done" /\ outcome # "ZeroDivisionError")
\* the capped loop ended by paying the loan off
PaidOffEarly ==
    /\ pc = "done"
    /\ outcome = "returned"
    /\ CapGiven
    /\ new_schedule # << >>
    /\ adj.month = Len(new_schedule)
Records == {schedule[k] : k \in 1..Len(schedule)}
               \cup {new_schedule[k] : k \in 1..Len(new_schedule)}
               \cup {retval[k] : k \in 1..Len(retval)}

\* C1: with a cap given, the call raises MaxPaymentException exactly when the
\* cap is <= the first standard record's 'Total Monthly Payment'; when it
\* raises, nothing is returned and no capped record was built.
C1_CapRejection ==
    /\ (outcome = "MaxPaymentException") => (CapGiven /\ retval = << >> /\ new_schedule = << >>)
    /\ (pc = "done" /\ CapGiven /\ outcome # "ZeroDivisionError") =>
          ((outcome = "MaxPaymentException")
              <=> (Cap <= Cents(schedule[1].Total_Monthly_Payment)))

\* C1 witness: a cap equal to the first record's total is rejected.
C1_Witness ==
    /\ pc = "done"
    /\ outcome = "MaxPaymentException"
    /\ Cap = Cents(schedule[1].Total_Monthly_Payment)

\* C2: for a positive rate and loan amount, every accepted cap yields a
\* schedule of at most term*12 records whose last 'Remaining Balance' is 0.
C2_CapPaysOff ==
    (pc = "done" /\ outcome = "returned" /\ CapGiven
        /\ args.interest > 0 /\ InitialLoanAmount > 0) =>
       /\ Len(retval) >= 1
       /\ Len(retval) <= NPayments
       /\ Last(retval).Remaining_Balance = 0

\* C3: in every record of either schedule, 'Monthly Payment' is within one
\* cent of 'Principal' + 'Interest'.
C3_ComponentSum ==
    \A r \in Records : Abs(r.Monthly_Payment - (r.Principal + r.Interest)) <= 1

\* C3 witness: a capped schedule that paid off early, with additional costs,
\* one of whose records shows a one-cent rounding difference.
C3_Witness ==
    /\ PaidOffEarly
    /\ ~ZeroCosts
    /\ Len(new_schedule) >= 2
    /\ \E k \in 1..Len(new_schedule) :
          Abs(new_schedule[k].Monthly_Payment
                - (new_schedule[k].Principal + new_schedule[k].Interest)) = 1

\* C4 as claimed: for a positive rate and loan amount the standard records'
\* 'Remaining Balance' strictly decreases and ends at zero.
C4_StrictlyDecreasing ==
    (args.interest > 0 /\ InitialLoanAmount > 0) =>
       /\ \A k \in 1..(Len(schedule) - 1) :
             schedule[k + 1].Remaining_Balance < schedule[k].Remaining_Balance
       /\ StdReturned => Last(schedule).Remaining_Balance = 0

\* C4 amended: the emitted balances never increase, strictly decrease at every
\* record whose emitted 'Principal' is at least two cents, and end at zero.
C4_NonIncreasing ==
    (args.interest > 0 /\ InitialLoanAmount > 0) =>
       /\ \A k \in 1..(Len(schedule) - 1) :
             /\ schedule[k + 1].Remaining_Balance <= schedule[k].Remaining_Balance
             /\ schedule[k + 1].Principal >= 2 =>
                   schedule[k + 1].Remaining_Balance < schedule[k].Remaining_Balance
       /\ StdReturned => Last(schedule).Remaining_Balance = 0

\* C4 witness: a complete standard schedule in which two consecutive emitted
\* balances are equal and the last is zero.
C4_Witness ==
    /\ StdReturned
    /\ args.interest > 0
    /\ InitialLoanAmount > 0
    /\ Last(schedule).Remaining_Balance = 0
    /\ \E k \in 1..(Len(schedule) - 1) :
          schedule[k + 1].Remaining_Balance = schedule[k].Remaining_Balance

\* The month a 'Month' label names, counted from year 0.
MonthIndex(label) == (label \div 100) * 12 + (label % 100) - 1

\* C5: the standard loop never exits early: the list it returns has exactly
\* term*12 records, the first labelled with the start month and each next one
\* with the following calendar month.
C5_ExactlyNPayments ==
    /\ Len(schedule) <= NPayments
    /\ StdReturned => Len(schedule) = NPayments
    /\ (pc = "done" /\ outcome = "returned" /\ ~CapGiven) => retval = schedule
    /\ \A k \in 1..Len(schedule) :
          /\ (schedule[k].Month % 100) \in 1..12
          /\ MonthIndex(schedule[k].Month)
                = args.start_date.year * 12 + args.start_date.month - 1 + (k - 1)

\* C5 witness: a returned standard schedule that runs into the next year.
C5_Witness ==
    /\ pc = "done"
    /\ outcome = "returned"
    /\ ~CapGiven
    /\ Len(retval) = NPayments
    /\ Last(retval).Month \div 100 > retval[1].Month \div 100

\* C6: at a rate of exactly 0 no division by zero escapes: the payment is
\* loan_amount / n_payments and term*12 records are returned.
C6_ZeroRateHandled ==
    (args.interest = 0) =>
       /\ outcome # "ZeroDivisionError"
       /\ StdReturned =>
             /\ Len(schedule) = NPayments
             /\ std.monthly_payment = DivInt(InitialLoanAmount, NPayments)

C8_SameAdditionalCosts ==
    (pc = "adj_loop") =>
       adj.additional_costs
          = std.monthly_property_taxes + std.monthly_home_insurance
              + std.monthly_hoa_fees + std.monthly_pmi

\* C9: the record appended by the pay-off iteration has balance 0 and a
\* 'Total Monthly Payment' equal to the payment due (the balance before the
\* payment plus the month's interest and additional costs); every other
\* capped record has 'Total Monthly Payment' equal to the cap.
C9_FinalPaymentClamped ==
    [][(pc = "adj_loop" /\ Len(new_schedule') = Len(new_schedule) + 1) =>
         IF pc' = "done"
         THEN /\ Last(new_schedule').Remaining_Balance = 0
              /\ Last(new_schedule').Total_Monthly_Payment
                   = Round2(adj.loan_amount + adj'.interest_payment
                              + adj.additional_costs)
         ELSE Last(new_schedule').Total_Monthly_Payment = Round2(Cap)]_vars

\* The per-month field and the cumulative field that totals it.
SumFields ==
    {<<"Total_Monthly_Payment", "Total_Payments_Sum">>,
     <<"Interest", "Interest_Sum">>,
     <<"Principal", "Principal_Sum">>,
     <<"Property_Taxes", "Property_Taxes_Sum">>,
     <<"Home_Insurance", "Home_Insurance_Sum">>,
     <<"HOA_Fees", "HOA_Fees_Sum">>,
     <<"PMI", "PMI_Sum">>}

RECURSIVE RunningTotal(_, _, _)
RunningTotal(s, k, field) ==
    IF k = 0 THEN 0 ELSE RunningTotal(s, k - 1, field) + s[k][field]

\* C10: in every record k of either schedule each cumulative field is the
\* running total of its per-month amount over records 1..k.  The fields are
\* emitted rounded to the cent, so the k+1 figures compared may each be half
\* a cent off.
C10_RunningTotals ==
    \A s \in {schedule, new_schedule} : \A k \in 1..Len(s) : \A p \in SumFields :
        2 * Abs(s[k][p[2]] - RunningTotal(s, k, p[1])) <= k + 1

====
